---- MODULE Spec2Model ----
(***************************************************************************)
(* Engine performance estimation pipeline of esp32-Yanmar-ADC:             *)
(*   - fuel model            src/src/engine_fuel.h  (setup_engine_fuel)    *)
(*   - load model            src/src/engine_load.h  (setup_engine_load)    *)
(*   - RPM stabilizer        src/src/rpm_sensor.h   (setup_rpm_sensor)     *)
(*   - engine hours          src/src/engine_hours.h (class EngineHours)    *)
(*   - coolant sender        src/src/sender_resistance.h                   *)
(*   - coolant simulator     src/src/coolant_simulator.h (ohms_for_temp)   *)
(*   - stabilized fuel model src/src/engine_fuel.h  (STABILIZED)           *)
(*   - sliding-window RPM    src/src/rpm_sensor.h   (smoothing lambda)     *)
(*                                                                         *)
(* Number representation.  The program computes in IEEE float; the model   *)
(* computes in fixed point on integers and keeps NaN and the infinities    *)
(* as three distinguished values with the comparison and arithmetic rules  *)
(* of IEEE (every comparison with NaN is false, NaN propagates).           *)
(*   rev/s            unit 1/30 rev/s                                      *)
(*   RPM              unit 1 RPM                                           *)
(*   m/s              unit 0.001 m/s                                       *)
(*   knots            unit 0.001 kn                                        *)
(*   radians          unit 0.001 rad                                       *)
(*   L/h, kW, factors unit 0.001                                           *)
(*   millis()         unit 4 ms, so the 2^32 ms wrap is 2^30 units         *)
(*   engine hours     unit 4 ms of run time (1/900000 h), so that          *)
(*                    elapsed_ms / 3600000 is the elapsed time itself      *)
(***************************************************************************)
EXTENDS Integers, Sequences, FiniteSets, TLC

VARIABLES
  \* ---- fuel model (engine_fuel.h) ----
  cfg,          \* which producers were passed to setup_engine_fuel (non-null)
  stw_ms,       \* latest value held by the STW producer (m/s)
  sog_ms,       \* latest value held by the SOG producer (m/s)
  aws_ms,       \* latest value held by the AWS producer (m/s)
  awa_rad,      \* latest value held by the AWA producer (rad)
  use_stw_cfg,  \* operator flag, Linear config value
  fuelEval,     \* last evaluation of the fuel_lph_raw lambda: inputs read and value emitted
  held,         \* observer: the last valid value each producer delivered
  \* ---- load model (engine_load.h) ----
  state,        \* EngineLoadLatchedState
  rpm_rev_s,    \* latest value emitted by the rpm_rev_s producer (rev/s)
  loadEval,     \* last evaluation of the load lambda
  \* ---- RPM stabilizer (rpm_sensor.h) ----
  now,            \* millis()
  last_valid_rpm, \* static in the rpm_stable lambda
  last_valid_ms,  \* static in the rpm_stable lambda
  rpmEval,        \* last sample processed by the stabilizer chain and what it emitted
  hist,           \* observer: true time since the last valid sample, and that sample
  \* ---- engine hours (engine_hours.h) ----
  millis,         \* millis() as the EngineHours timer sees it
  engineHours,    \* the EngineHours object: hours_, last_rev_s_, engine_running_,
                  \* last_tick_ms_, last_save_ms_
  prefs_,         \* value stored under "engine_hours" in the Preferences namespace
  hoursObs,       \* observer: what the last operation on EngineHours was and did
  \* ---- coolant sender (sender_resistance.h) ----
  sender,         \* the SenderResistance object: supply_voltage_, r_gauge_coil_, output
  senderObs,      \* observer: the last input and the faulty inputs before it
  \* ---- coolant simulator (coolant_simulator.h) ----
  coolant,        \* the last ohms_for_temp call: its query and its result
  \* ---- stabilized fuel model (engine_fuel.h, STABILIZED) ----
  stabNow,        \* millis()
  stabIn,         \* what the STW and SOG producers and the use-STW flag hold
  stab,           \* statics of the lambda: last_fuel, last_valid_rpm_ms, engine_running
  stabEval,       \* observer: the last sample, the value emitted for it and before it
  \* ---- sliding-window conditioner (rpm_sensor.h, setup_rpm_sensor) ----
  winNow,         \* millis()
  rpm_buf,        \* static std::deque<RpmSample>
  last_sample_ms, \* static in the smoothing lambda
  winEval         \* observer: the last sample, the value emitted, time since a valid one

vars == <<cfg, stw_ms, sog_ms, aws_ms, awa_rad, use_stw_cfg, fuelEval, held,
          state, rpm_rev_s, loadEval, now, last_valid_rpm, last_valid_ms, rpmEval, hist,
          millis, engineHours, prefs_, hoursObs,
          sender, senderObs, coolant,
          stabNow, stabIn, stab, stabEval,
          winNow, rpm_buf, last_sample_ms, winEval>>

fuelVars == <<cfg, stw_ms, sog_ms, aws_ms, awa_rad, use_stw_cfg, fuelEval, held>>
loadVars == <<state, rpm_rev_s, loadEval>>
rpmVars  == <<now, last_valid_rpm, last_valid_ms, rpmEval, hist>>
hoursVars == <<millis, engineHours, prefs_, hoursObs>>
senderVars == <<sender, senderObs>>
\* the components that take no part in the fuel, load, RPM and hours pipelines
stabVars == <<stabNow, stabIn, stab, stabEval>>
winVars == <<winNow, rpm_buf, last_sample_ms, winEval>>
auxVars == <<senderVars, coolant, stabVars, winVars>>

-----------------------------------------------------------------------------
(* IEEE float values: NaN and the infinities, NaN-aware comparisons *)

NaN  == -2000000000
NInf == -1999999999
PInf == 1999999999

IsNaN(x)    == x = NaN
IsFinite(x) == x \notin {NaN, NInf, PInf}

FLt(a, b) == ~IsNaN(a) /\ ~IsNaN(b) /\ a < b
FLe(a, b) == ~IsNaN(a) /\ ~IsNaN(b) /\ a <= b
FGt(a, b) == ~IsNaN(a) /\ ~IsNaN(b) /\ a > b
FGe(a, b) == ~IsNaN(a) /\ ~IsNaN(b) /\ a >= b

\* x * num / den for a positive constant num/den
FScale(x, num, den) == IF IsFinite(x) THEN (x * num) \div den ELSE x

\* product of two values in 0.001 units
FMul(a, b) == IF IsNaN(a) \/ IsNaN(b) THEN NaN ELSE (a * b) \div 1000

FAdd(a, b) == IF IsNaN(a) \/ IsNaN(b) THEN NaN ELSE a + b
FSub(a, b) == IF IsNaN(a) \/ IsNaN(b) THEN NaN ELSE a - b
FAbs(a)    == IF IsNaN(a) THEN NaN ELSE IF a < 0 THEN 0 - a ELSE a

\* a / b, both in 0.001 units, b finite and nonzero wherever the code divides
FDiv(a, b) == IF IsNaN(a) \/ IsNaN(b) THEN NaN ELSE (a * 1000) \div b

-----------------------------------------------------------------------------
(* engine_fuel.h: constants and helpers *)

DOCK_SPEED_KTS     == 150
ENGINE_RUNNING_RPM == 500
RPM_MAX_VALID      == 4500
FUEL_ABS_MAX       == 14000
FUEL_FALLBACK      == 600

\* MS_TO_KTS = 1.94384449
MsToKts(v) == FScale(v, 19438, 10000)

clamp_val(v, lo, hi) == IF FLt(v, lo) THEN lo ELSE IF FGt(v, hi) THEN hi ELSE v

engine_running_loose(rpm) == ~IsNaN(rpm) /\ rpm >= 300

engine_running(rpm) == ~IsNaN(rpm) /\ rpm >= ENGINE_RUNNING_RPM

\* rev/s -> RPM, range-checked
FuelRpm(rps) ==
  IF IsNaN(rps) THEN NaN
  ELSE LET r == FScale(rps, 60, 30)   \* rps * 60.0f, rev/s in 1/30 units
       IN  IF FLt(r, 0) \/ FGt(r, RPM_MAX_VALID) THEN NaN ELSE r

-----------------------------------------------------------------------------
(* Curve tables: <<RPM, value in 0.001 units>> *)

baseline_stw_curve ==
  << <<500, 0>>, <<1000, 0>>, <<1800, 2500>>, <<2000, 4300>>,
     <<2400, 5000>>, <<2800, 6400>>, <<3200, 7300>>,
     <<3600, 7450>>, <<3800, 7600>>, <<3900, 7600>> >>

baseline_fuel_curve ==
  << <<500, 600>>, <<1000, 750>>, <<1800, 1100>>,
     <<2000, 1500>>, <<2200, 1850>>, <<2400, 2250>>, <<2500, 2600>>,
     <<2800, 3600>>, <<3000, 4400>>, <<3200, 5300>>,
     <<3600, 6900>>, <<3800, 7600>>, <<3900, 9600>> >>

rated_fuel_curve ==
  << <<500, 900>>, <<1800, 1400>>, <<2000, 1800>>, <<2400, 2450>>,
     <<2800, 3800>>, <<3200, 5250>>, <<3600, 7800>>, <<3900, 9600>> >>

idle_fuel_curve_high == << <<800, 1000>>, <<3600, 1400>> >>

idle_fuel_curve == << <<800, 600>>, <<3600, 1400>> >>

max_power_curve ==
  << <<1800, 17900>>, <<2000, 20900>>, <<2400, 24600>>, <<2800, 26800>>,
     <<3200, 28300>>, <<3600, 29500>>, <<3800, 29830>> >>

\* Piecewise-linear lookup, clamped to the boundary value outside the table.
\* The interpolator class itself is library code outside src/; its contract
\* is taken from the design (spec 4.1).
CurveInterpolator(c, x) ==
  IF ~IsFinite(x) THEN NaN
  ELSE IF x <= c[1][1] THEN c[1][2]
  ELSE IF x >= c[Len(c)][1] THEN c[Len(c)][2]
  ELSE LET i  == CHOOSE k \in 1..(Len(c) - 1) : c[k][1] < x /\ x <= c[k + 1][1]
           x0 == c[i][1]
           y0 == c[i][2]
           x1 == c[i + 1][1]
           y1 == c[i + 1][2]
       IN  (y0 * (x1 - x) + y1 * (x - x0)) \div (x1 - x0)

-----------------------------------------------------------------------------
(* libm functions, in fixed point *)

PI_F == 3142

\* sinf on [0, PI_F]: Bhaskara's rational approximation 16p / (5 pi^2 - 4p),
\* p = a (pi - a); exact at 0, pi/2 and pi, within 0.002 elsewhere
Sinf(a) ==
  IF IsNaN(a) THEN NaN
  ELSE LET p == a * (PI_F - a)
       IN  (16 * p) \div ((5 * PI_F * PI_F - 4 * p) \div 1000)

\* cosf on [0, PI_F]
Cosf(a) ==
  IF IsNaN(a) THEN NaN
  ELSE IF a <= PI_F \div 2 THEN Sinf(a + PI_F \div 2)
  ELSE 0 - Sinf(a - PI_F \div 2)

\* powf(x, 0.6) for x >= 1: table of x^0.6, linear between the knots,
\* monotone increasing; beyond the last knot the value is above 2.0, which
\* is all the caller (clamp to [1, 2]) can observe
Pow06Table ==
  << <<1000, 1000>>, <<1050, 1030>>, <<1100, 1059>>, <<1200, 1116>>,
     <<1300, 1170>>, <<1400, 1224>>, <<1500, 1275>>, <<1750, 1399>>,
     <<2000, 1516>>, <<2250, 1627>>, <<2500, 1733>>, <<2750, 1835>>,
     <<3000, 1933>>, <<3175, 2000>>, <<3200, 2010>> >>

Powf06(x) ==
  IF IsNaN(x) THEN NaN
  ELSE IF x >= 3200 THEN 2010
  ELSE IF x < 1000 THEN 1000 - ((1000 - x) * 6) \div 10
  ELSE LET i  == CHOOSE k \in 1..(Len(Pow06Table) - 1) :
                   Pow06Table[k][1] <= x /\ x < Pow06Table[k + 1][1]
           x0 == Pow06Table[i][1]
           y0 == Pow06Table[i][2]
           x1 == Pow06Table[i + 1][1]
           y1 == Pow06Table[i + 1][2]
       IN  (y0 * (x1 - x) + y1 * (x - x0)) \div (x1 - x0)

-----------------------------------------------------------------------------
(* engine_fuel.h: STW sanity check, wind multiplier, fuel model *)

stw_invalid(rpm, stw_kts) ==
  \/ FGt(rpm, 3000) /\ FLt(stw_kts, 4000)
  \/ FGt(rpm, 2500) /\ FLt(stw_kts, 3500)
  \/ FGt(rpm, 1000) /\ FLt(stw_kts, 1000)

\* the arithmetic of wind_load_factor after its guard
WindPenalty(aws_kts, awa) ==
  LET angle    == clamp_val(FAbs(awa), 0, PI_F)
      aws_c    == clamp_val(aws_kts, 7000, 30000)
      head     == Cosf(angle)
      cross    == Sinf(angle)
      strength == FDiv(FSub(aws_c, 7000), 23000)
      p1       == IF FGt(head, 0) THEN FMul(FMul(strength, head), 300)
                                  ELSE FMul(FMul(strength, head), 120)
      penalty  == FAdd(p1, FMul(FMul(strength, cross), 180))
  IN  clamp_val(FAdd(1000, penalty), 900, 1450)

wind_load_factor_unguarded(aws_kts, awa) ==
  IF FLt(aws_kts, 7000) THEN 1000 ELSE WindPenalty(aws_kts, awa)

wind_load_factor(aws_kts, awa) ==
  IF IsNaN(aws_kts) \/ IsNaN(awa) \/ FLt(aws_kts, 7000)
  THEN 1000
  ELSE WindPenalty(aws_kts, awa)

\* a docked test that looks at STW whatever the flag says
VesselDocked_ignores_flag(use_stw, stw_kts, sog_kts) ==
  LET stw_valid == ~IsNaN(stw_kts)
      sog_valid == ~IsNaN(sog_kts)
  IN  \/ stw_valid /\ FLt(stw_kts, DOCK_SPEED_KTS)
      \/ sog_valid /\ FLt(sog_kts, DOCK_SPEED_KTS)

\* bool vessel_docked of the fuel lambda
VesselDocked(use_stw, stw_kts, sog_kts) ==
  LET stw_valid == ~IsNaN(stw_kts)
      sog_valid == ~IsNaN(sog_kts)
  IN  IF use_stw
      THEN \/ stw_valid /\ FLt(stw_kts, DOCK_SPEED_KTS)
           \/ sog_valid /\ FLt(sog_kts, DOCK_SPEED_KTS)
      ELSE sog_valid /\ FLt(sog_kts, DOCK_SPEED_KTS)

StwFactor_deadband_inverted(r, use_stw, stw_kts, baseSTW) ==
  IF use_stw /\ ~IsNaN(stw_kts) /\ ~stw_invalid(r, stw_kts)
     /\ ~IsNaN(baseSTW) /\ FGt(baseSTW, DOCK_SPEED_KTS)
  THEN LET ratio == FDiv(baseSTW, stw_kts)
       IN  IF FLt(ratio, 1050) THEN clamp_val(Powf06(ratio), 1000, 2000) ELSE 1000
  ELSE 1000

\* float stw_factor of the fuel lambda
StwFactor(r, use_stw, stw_kts, baseSTW) ==
  IF use_stw /\ ~IsNaN(stw_kts) /\ ~stw_invalid(r, stw_kts)
     /\ ~IsNaN(baseSTW) /\ FGt(baseSTW, DOCK_SPEED_KTS)
  THEN LET ratio == FDiv(baseSTW, stw_kts)
       IN  IF FGe(ratio, 1050) THEN clamp_val(Powf06(ratio), 1000, 2000) ELSE 1000
  ELSE 1000

\* The fuel_lph_raw lambda.  c says which producer pointers are non-null;
\* stw, sog, aws, awa are what the producers' get() returns; use is
\* use_stw_cfg->get().  The four curve transforms are connected to rpm before
\* the lambda, so their get() is the lookup of the same r.
FuelLphRaw(r, c, stw, sog, aws, awa, use) ==
  IF ~engine_running(r) THEN [mode |-> "Stopped", fuel |-> 0]
  ELSE
    LET stw_kts == IF c.stw THEN MsToKts(stw) ELSE NaN
        sog_kts == IF c.sog THEN MsToKts(sog) ELSE NaN
        use_stw == FGe(use, 500)
    IN  IF VesselDocked(use_stw, stw_kts, sog_kts)
        THEN LET idle == CurveInterpolator(idle_fuel_curve, r)
             IN  [mode |-> "Docked",
                  fuel |-> IF IsNaN(idle) \/ FLe(idle, 0) THEN FUEL_FALLBACK ELSE idle]
        ELSE
          LET baseFuel == CurveInterpolator(baseline_fuel_curve, r)
              baseSTW  == CurveInterpolator(baseline_stw_curve, r)
              fuelMax  == CurveInterpolator(rated_fuel_curve, r)
          IN  IF IsNaN(baseFuel) \/ FLe(baseFuel, 0)
              THEN [mode |-> "Underway", fuel |-> FUEL_FALLBACK]
              ELSE
                LET stw_factor  == StwFactor(r, use_stw, stw_kts, baseSTW)
                    wind_factor == IF c.aws /\ c.awa
                                   THEN wind_load_factor(MsToKts(aws), awa)
                                   ELSE 1000
                    fuel0 == FMul(FMul(baseFuel, stw_factor), wind_factor)
                    fuel1 == IF ~IsNaN(fuelMax) /\ FGt(fuel0, fuelMax)
                             THEN fuelMax ELSE fuel0
                IN  [mode |-> "Underway",
                     fuel |-> clamp_val(fuel1, 0, FUEL_ABS_MAX)]

-----------------------------------------------------------------------------
(* Fuel model: inputs and actions *)

\* rev/s delivered by the upstream producer (1/30 rev/s):
\* NaN, -1, 0, 498 RPM, 500, 1010, 2510, 2800, 3700, 4500, 4502 RPM, +inf
RpsInputs == {NaN, -30, 0, 249, 250, 505, 1255, 1400, 1850, 2250, 2251, PInf}

\* STW (0.001 m/s): NaN, 0.1 kn, 3.4, 3.6, 5.2, 6.2, 6.4 kn
StwInputs == {NaN, 51, 1749, 1852, 2675, 3190, 3293}

\* SOG (0.001 m/s): NaN, 0.1 kn, 6.4 kn
SogInputs == {NaN, 51, 3293}

\* AWS (0.001 m/s): NaN, 5 kn, 15 kn, 31 kn
AwsInputs == {NaN, 2572, 7717, 16000}

\* AWA (0.001 rad): NaN, ahead, abeam (port), astern
AwaInputs == {NaN, 0, -1571, 3142}

\* use_stw_cfg value: 0.0 or 1.0
UseInputs == {0, 1000}

\* producer pointers passed to setup_engine_fuel
CfgInputs ==
  { [stw |-> TRUE,  sog |-> TRUE,  aws |-> TRUE,  awa |-> TRUE],
    [stw |-> TRUE,  sog |-> TRUE,  aws |-> TRUE,  awa |-> FALSE],
    [stw |-> FALSE, sog |-> TRUE,  aws |-> TRUE,  awa |-> TRUE],
    [stw |-> TRUE,  sog |-> FALSE, aws |-> TRUE,  awa |-> TRUE],
    [stw |-> TRUE,  sog |-> TRUE,  aws |-> FALSE, awa |-> TRUE],
    [stw |-> FALSE, sog |-> FALSE, aws |-> FALSE, awa |-> FALSE] }

AllProducers == [stw |-> TRUE, sog |-> TRUE, aws |-> TRUE, awa |-> TRUE]

\* state after setup_engine_fuel was called with the producers c
FuelInit(c) ==
  /\ cfg = c
  /\ stw_ms = NaN /\ sog_ms = NaN /\ aws_ms = NaN /\ awa_rad = NaN
  /\ use_stw_cfg = 1000
  /\ fuelEval = [done |-> FALSE, fresh |-> FALSE, r |-> NaN,
                 mode |-> "Stopped", fuel |-> 0]
  /\ held = [stw |-> NaN, sog |-> NaN, aws |-> NaN, awa |-> NaN]

Stale == [fuelEval EXCEPT !.fresh = FALSE]

\* observer: a valid value replaces the one kept, a NaN leaves it
Keep(old, v) == IF IsNaN(v) THEN old ELSE v

\* the STW listener receives a value (no recomputation is connected to it)
StwUpdate ==
  \E v \in StwInputs :
    /\ cfg.stw /\ v # stw_ms
    /\ stw_ms' = v /\ fuelEval' = Stale
    /\ held' = [held EXCEPT !.stw = Keep(@, v)]
    /\ UNCHANGED <<cfg, sog_ms, aws_ms, awa_rad, use_stw_cfg, loadVars, rpmVars, hoursVars, auxVars>>

SogUpdate ==
  \E v \in SogInputs :
    /\ cfg.sog /\ v # sog_ms
    /\ sog_ms' = v /\ fuelEval' = Stale
    /\ held' = [held EXCEPT !.sog = Keep(@, v)]
    /\ UNCHANGED <<cfg, stw_ms, aws_ms, awa_rad, use_stw_cfg, loadVars, rpmVars, hoursVars, auxVars>>

AwsUpdate ==
  \E v \in AwsInputs :
    /\ cfg.aws /\ v # aws_ms
    /\ aws_ms' = v /\ fuelEval' = Stale
    /\ held' = [held EXCEPT !.aws = Keep(@, v)]
    /\ UNCHANGED <<cfg, stw_ms, sog_ms, awa_rad, use_stw_cfg, loadVars, rpmVars, hoursVars, auxVars>>

AwaUpdate ==
  \E v \in AwaInputs :
    /\ cfg.awa /\ v # awa_rad
    /\ awa_rad' = v /\ fuelEval' = Stale
    /\ held' = [held EXCEPT !.awa = Keep(@, v)]
    /\ UNCHANGED <<cfg, stw_ms, sog_ms, aws_ms, use_stw_cfg, loadVars, rpmVars, hoursVars, auxVars>>

UseStwUpdate ==
  \E v \in UseInputs :
    /\ v # use_stw_cfg
    /\ use_stw_cfg' = v /\ fuelEval' = Stale
    /\ UNCHANGED <<held, cfg, stw_ms, sog_ms, aws_ms, awa_rad, loadVars, rpmVars, hoursVars, auxVars>>

\* rpm_rev_s emits: rev/s -> RPM, the curves, then the fuel lambda
FuelRpmSample ==
  \E rps \in RpsInputs :
    LET r   == FuelRpm(rps)
        out == FuelLphRaw(r, cfg, stw_ms, sog_ms, aws_ms, awa_rad, use_stw_cfg)
    IN  /\ fuelEval' = [done |-> TRUE, fresh |-> TRUE, r |-> r,
                        mode |-> out.mode, fuel |-> out.fuel]
        /\ UNCHANGED <<held, cfg, stw_ms, sog_ms, aws_ms, awa_rad, use_stw_cfg, loadVars, rpmVars, hoursVars, auxVars>>

-----------------------------------------------------------------------------
(* engine_load.h *)

\* rev/s -> RPM (sanity-checked)
LoadRpm(rps) ==
  IF ~IsFinite(rps) THEN NaN
  ELSE LET r == FScale(rps, 60, 30)
       IN  IF FLt(r, 0) \/ FGt(r, RPM_MAX_VALID) THEN NaN ELSE r

ActualPowerKW_nan_when_off(lph) ==
  IF IsNaN(lph) \/ FLe(lph, 0) THEN NaN
  ELSE FScale(FScale(lph, 840, 1000), 1000, 240)

\* kW = (L/h * kg/L * 1000 g/kg) / (g/kWh), BSFC 240 g/kWh, density 0.84 kg/L
ActualPowerKW(lph) ==
  IF ~IsFinite(lph) \/ FLe(lph, 0) THEN 0
  ELSE FScale(FScale(lph, 840, 1000), 1000, 240)

\* the load lambda; st is the EngineLoadLatchedState
LoadLambda(kW, st) ==
  IF ~IsFinite(st.rpm) \/ FLt(st.rpm, ENGINE_RUNNING_RPM) THEN 0
  ELSE IF ~IsFinite(st.max_kW) \/ FLe(st.max_kW, 0) THEN 0
  ELSE clamp_val(FDiv(kW, st.max_kW), 0, 1000)

\* rev/s seen by the load model: NaN, +inf, -inf, -1, 0, 498 RPM, 500, 1000,
\* 2800, 3800, 4500, 4502
LoadRpsInputs == {NaN, PInf, NInf, -30, 0, 249, 250, 500, 1400, 1900, 2250, 2251}

\* fuel values (0.001 L/h): NaN, +inf, -inf, negative, 0, and finite up to 100 L/h
LphInputs == {NaN, PInf, NInf, -1000, 0, 600, 3600, 9600, 14000, 100000}

LoadInit ==
  /\ state = [rpm |-> NaN, max_kW |-> NaN]
  /\ rpm_rev_s = NaN
  /\ loadEval = [done |-> FALSE, piped |-> FALSE, rps |-> NaN, lph |-> NaN, load |-> 0]

\* the two latch lambdas: conversion, RPM latch, max-power curve, max_kW latch
LoadLatch(st, rps) ==
  LET r   == LoadRpm(rps)
      mkW == CurveInterpolator(max_power_curve, r)
  IN  [rpm    |-> IF IsFinite(r) THEN r ELSE st.rpm,
       max_kW |-> IF IsFinite(mkW) /\ FGt(mkW, 0) THEN mkW ELSE st.max_kW]

\* rpm_rev_s emits and no fuel stage hangs on it: the latches are updated
LoadRpmSample ==
  \E rps \in LoadRpsInputs :
    /\ rpm_rev_s' = rps
    /\ state' = LoadLatch(state, rps)
    /\ UNCHANGED <<loadEval, fuelVars, rpmVars, hoursVars, auxVars>>

\* fuel_lph emits: actual power, then the load lambda
LoadFuelSample ==
  \E lph \in LphInputs :
    /\ loadEval' = [done |-> TRUE, piped |-> FALSE, rps |-> rpm_rev_s, lph |-> lph,
                    load |-> LoadLambda(ActualPowerKW(lph), state)]
    /\ UNCHANGED <<state, rpm_rev_s, fuelVars, rpmVars, hoursVars, auxVars>>

\* rpm_rev_s emits and the fuel stage was connected to it before
\* setup_engine_load ran (main.cpp setup): observers are notified in the
\* order they were connected, so the fuel stage emits lph and the load lambda
\* runs on the latched state first, and the latches see the sample after it
LoadPipelineSample ==
  \E rps \in LoadRpsInputs, lph \in LphInputs :
    /\ rpm_rev_s' = rps
    /\ loadEval' = [done |-> TRUE, piped |-> TRUE, rps |-> rps, lph |-> lph,
                    load |-> LoadLambda(ActualPowerKW(lph), state)]
    /\ state' = LoadLatch(state, rps)
    /\ UNCHANGED <<fuelVars, rpmVars, hoursVars, auxVars>>

-----------------------------------------------------------------------------
(* rpm_sensor.h: stabilizer *)

\* millis() is a 32-bit counter of milliseconds; in units of 4 ms it wraps
\* at 2^30
ClockMod == 1073741824

RPM_HOLD_MS == 2000 \div 4

Elapsed_signed(t, then) == t - then

\* unsigned subtraction now - then
Elapsed(t, then) == (t - then + ClockMod) % ClockMod

\* pulses/sec -> RPM (raw, may be NaN)
RpmRaw(rps) == IF IsNaN(rps) \/ FLe(rps, 0) THEN NaN ELSE FScale(rps, 60, 30)

RpmValid(rpm) == ~IsNaN(rpm) /\ FGe(rpm, ENGINE_RUNNING_RPM)

Stabilize_hold_inclusive(rpm, t, lvr, lvm) ==
  IF RpmValid(rpm)
  THEN [out |-> rpm, last_valid_rpm |-> rpm, last_valid_ms |-> t]
  ELSE IF Elapsed(t, lvm) <= RPM_HOLD_MS
  THEN [out |-> lvr, last_valid_rpm |-> lvr, last_valid_ms |-> lvm]
  ELSE [out |-> 0, last_valid_rpm |-> 0, last_valid_ms |-> lvm]

Stabilize_pass_through(rpm, t, lvr, lvm) ==
  IF RpmValid(rpm)
  THEN [out |-> rpm, last_valid_rpm |-> rpm, last_valid_ms |-> t]
  ELSE IF Elapsed(t, lvm) < RPM_HOLD_MS
  THEN [out |-> rpm, last_valid_rpm |-> lvr, last_valid_ms |-> lvm]
  ELSE [out |-> 0, last_valid_rpm |-> 0, last_valid_ms |-> lvm]

Stabilize_no_reset(rpm, t, lvr, lvm) ==
  IF RpmValid(rpm)
  THEN [out |-> rpm, last_valid_rpm |-> rpm, last_valid_ms |-> t]
  ELSE IF Elapsed(t, lvm) < RPM_HOLD_MS
  THEN [out |-> lvr, last_valid_rpm |-> lvr, last_valid_ms |-> lvm]
  ELSE [out |-> 0, last_valid_rpm |-> lvr, last_valid_ms |-> lvm]

\* the rpm_stable lambda: t is millis(), lvr and lvm its two statics
Stabilize(rpm, t, lvr, lvm) ==
  IF RpmValid(rpm)
  THEN [out |-> rpm, last_valid_rpm |-> rpm, last_valid_ms |-> t]
  ELSE IF Elapsed(t, lvm) < RPM_HOLD_MS
  THEN [out |-> lvr, last_valid_rpm |-> lvr, last_valid_ms |-> lvm]
  ELSE [out |-> 0, last_valid_rpm |-> 0, last_valid_ms |-> lvm]

\* RPM -> rev/s (canonical): rpm / 60.0f
RevS(rpm) == FScale(rpm, 30, 60)

\* rev/s -> rad/s: rev_s * RAD_PER_REV (6.283185307), result in 0.001 rad/s
RadS(rev_s) == FScale(rev_s, 6283, 30)

\* raw frequency after the multiplier (1/30 rev/s):
\* NaN, negative, zero, 480 RPM, 500 RPM, 2800 RPM
FreqInputs == {NaN, -30, 0, 240, 250, 1400}

\* time between two consecutive samples (4 ms): 0.5 s, 1.5 s, 2 s
GapInputs == {125, 375, 500}

\* a long run with no valid sample (4 ms): 2^32 ms less one second
SilenceInputs == {ClockMod - 250}

MaxSamples == 5
MaxSilences == 1

Min(a, b) == IF a < b THEN a ELSE b

RpmInit ==
  /\ now = 0
  /\ last_valid_rpm = 0
  /\ last_valid_ms = 0
  /\ rpmEval = [done |-> FALSE, in |-> NaN, out |-> 0, rev_s |-> 0, rad_s |-> 0]
  /\ hist = [seen |-> FALSE, latched |-> 0, since |-> 0, n |-> 0, silences |-> 0]

\* the frequency transform emits a sample d after the previous one: rpm_raw,
\* the stabilizer, rev/s and rad/s
RpmSample ==
  \E d \in GapInputs, f \in FreqInputs :
    LET t   == (now + d) % ClockMod
        rpm == RpmRaw(f)
        s   == Stabilize(rpm, t, last_valid_rpm, last_valid_ms)
        rs  == RevS(s.out)
    IN  /\ hist.n < MaxSamples
        /\ now' = t
        /\ last_valid_rpm' = s.last_valid_rpm
        /\ last_valid_ms' = s.last_valid_ms
        /\ rpmEval' = [done |-> TRUE, in |-> rpm, out |-> s.out,
                       rev_s |-> rs, rad_s |-> RadS(rs)]
        /\ hist' = IF RpmValid(rpm)
                   THEN [hist EXCEPT !.seen = TRUE, !.latched = rpm,
                                     !.since = 0, !.n = @ + 1]
                   ELSE [hist EXCEPT !.since = Min(@ + d, RPM_HOLD_MS),
                                     !.n = @ + 1]
        /\ UNCHANGED <<fuelVars, loadVars, hoursVars, auxVars>>

\* A long run of invalid samples once the hold window is over (or before any
\* valid sample): each of them leaves the two statics as they are, so the
\* run only moves the clock.
LongSilence ==
  \E d \in SilenceInputs :
    /\ hist.silences < MaxSilences
    /\ \/ ~hist.seen
       \/ rpmEval.done /\ ~RpmValid(rpmEval.in) /\ hist.since >= RPM_HOLD_MS
    /\ now' = (now + d) % ClockMod
    /\ hist' = [hist EXCEPT !.silences = @ + 1,
                            !.since = Min(@ + RPM_HOLD_MS, RPM_HOLD_MS)]
    /\ UNCHANGED <<last_valid_rpm, last_valid_ms, rpmEval, fuelVars, loadVars, hoursVars, auxVars>>

-----------------------------------------------------------------------------
(* engine_hours.h: class EngineHours *)

RPM_RUNNING_THRESHOLD == 500

\* RPM_RUNNING_THRESHOLD / 60.0f, in 1/30 rev/s
REV_S_RUNNING_THRESHOLD == (RPM_RUNNING_THRESHOLD * 30) \div 60

TICK_INTERVAL_MS == 1000 \div 4

SAVE_INTERVAL_MS == 10000 \div 4

\* the members after the constructor ran load_hours(); stored is what
\* prefs_.getFloat("engine_hours", 0.0f) returns
EngineHoursNew(stored) ==
  [hours_          |-> stored,
   last_rev_s_     |-> NaN,
   engine_running_ |-> FALSE,
   last_tick_ms_   |-> 0,
   last_save_ms_   |-> 0]

Set_latches_nan(o, rev_s) == [o EXCEPT !.last_rev_s_ = rev_s]

\* void set(const float& rev_s)
Set(o, rev_s) ==
  IF IsNaN(rev_s) THEN o ELSE [o EXCEPT !.last_rev_s_ = rev_s]

Running_strict(o) ==
  IF ~IsNaN(o.last_rev_s_) /\ FGt(o.last_rev_s_, REV_S_RUNNING_THRESHOLD) THEN TRUE
  ELSE IF ~IsNaN(o.last_rev_s_) THEN FALSE
  ELSE o.engine_running_

\* the running decision of the timer callback
Running(o) ==
  IF ~IsNaN(o.last_rev_s_) /\ FGe(o.last_rev_s_, REV_S_RUNNING_THRESHOLD) THEN TRUE
  ELSE IF ~IsNaN(o.last_rev_s_) THEN FALSE
  ELSE o.engine_running_

Tick_save_unstamped(o, t) ==
  IF o.last_tick_ms_ = 0
  THEN [eh      |-> [o EXCEPT !.last_tick_ms_ = t, !.last_save_ms_ = t],
        emitted |-> FALSE,
        saved   |-> FALSE,
        stored  |-> o.hours_]
  ELSE LET run  == Running(o)
           h    == IF run THEN o.hours_ + Elapsed(t, o.last_tick_ms_) ELSE o.hours_
           save == Elapsed(t, o.last_save_ms_) >= SAVE_INTERVAL_MS
       IN  [eh      |-> [o EXCEPT !.engine_running_ = run,
                                  !.hours_ = h,
                                  !.last_tick_ms_ = t],
            emitted |-> TRUE,
            saved   |-> save,
            stored  |-> h]

Tick_save_before_add(o, t) ==
  IF o.last_tick_ms_ = 0
  THEN [eh      |-> [o EXCEPT !.last_tick_ms_ = t, !.last_save_ms_ = t],
        emitted |-> FALSE,
        saved   |-> FALSE,
        stored  |-> o.hours_]
  ELSE LET run  == Running(o)
           h    == IF run THEN o.hours_ + Elapsed(t, o.last_tick_ms_) ELSE o.hours_
           save == Elapsed(t, o.last_save_ms_) >= SAVE_INTERVAL_MS
       IN  [eh      |-> [o EXCEPT !.engine_running_ = run,
                                  !.hours_ = h,
                                  !.last_tick_ms_ = t,
                                  !.last_save_ms_ = IF save THEN t ELSE @],
            emitted |-> TRUE,
            saved   |-> save,
            stored  |-> o.hours_]

\* the onRepeat callback run at millis() = t: the members after it, whether
\* it emitted, whether it called save_hours() and the value save_hours()
\* hands to putFloat
Tick(o, t) ==
  IF o.last_tick_ms_ = 0
  THEN [eh      |-> [o EXCEPT !.last_tick_ms_ = t, !.last_save_ms_ = t],
        emitted |-> FALSE,
        saved   |-> FALSE,
        stored  |-> o.hours_]
  ELSE LET run  == Running(o)
           h    == IF run THEN o.hours_ + Elapsed(t, o.last_tick_ms_) ELSE o.hours_
           save == Elapsed(t, o.last_save_ms_) >= SAVE_INTERVAL_MS
       IN  [eh      |-> [o EXCEPT !.engine_running_ = run,
                                  !.hours_ = h,
                                  !.last_tick_ms_ = t,
                                  !.last_save_ms_ = IF save THEN t ELSE @],
            emitted |-> TRUE,
            saved   |-> save,
            stored  |-> h]

\* n >= 1 callbacks in a row, one every TICK_INTERVAL_MS, with no set() call
\* between them and millis() not passing 0: the members after the last one,
\* the number of save_hours() calls, which callback made the first of them
\* and the value the last of them stored.
\* Requires o.last_tick_ms_ # 0.
Ticks(o, n) ==
  LET run   == Running(o)
      a     == Elapsed(o.last_tick_ms_, o.last_save_ms_)
      \* the first callback of the row that saves
      m1    == IF a + TICK_INTERVAL_MS >= SAVE_INTERVAL_MS THEN 1
               ELSE (SAVE_INTERVAL_MS - a + TICK_INTERVAL_MS - 1) \div TICK_INTERVAL_MS
      every == SAVE_INTERVAL_MS \div TICK_INTERVAL_MS
      saves == IF n < m1 THEN 0 ELSE 1 + (n - m1) \div every
      last  == m1 + (saves - 1) * every
      h     == IF run THEN o.hours_ + n * TICK_INTERVAL_MS ELSE o.hours_
  IN  [eh     |-> [o EXCEPT !.engine_running_ = run,
                            !.hours_ = h,
                            !.last_tick_ms_ = @ + n * TICK_INTERVAL_MS,
                            !.last_save_ms_ = IF saves = 0 THEN @
                                              ELSE o.last_tick_ms_ + last * TICK_INTERVAL_MS],
       saves  |-> saves,
       first  |-> m1,
       stored |-> IF run THEN o.hours_ + last * TICK_INTERVAL_MS ELSE o.hours_]

-----------------------------------------------------------------------------
(* Engine hours: inputs and actions *)

\* rev/s delivered to set(): NaN, 0, 498 RPM, 500 RPM, 2800 RPM
HoursRevInputs == {NaN, 0, 249, 250, 1400}

\* time from one timer callback to the next: the interval, and a callback
\* delayed by a blocked event loop
TickGapInputs == {TICK_INTERVAL_MS, 5 * TICK_INTERVAL_MS}

\* millis() when the constructor runs: 296 ms after power-up
BootInputs == {296 \div 4}

MaxTicks == 6
MaxRestarts == 1
MaxLongRuns == 1
MaxHoursBeforeLongRun == 100000
MaxWriteFails == 1

\* observer: true elapsed time kept up to one save interval
UpTo(x) == Min(x, SAVE_INTERVAL_MS)

\* observer: the counters are kept, the account of the previous operation
\* is dropped
Obs(kind) ==
  [hoursObs EXCEPT !.kind = kind,
                   !.d = 0, !.added = 0, !.wrote = FALSE, !.writeGap = -1,
                   !.wasRunning = FALSE, !.prevTick = 0, !.v = NaN,
                   !.memBefore = 0, !.failed = FALSE]

HoursInit ==
  /\ millis \in BootInputs
  /\ prefs_ = 0
  /\ engineHours = EngineHoursNew(prefs_)
  /\ hoursObs = [kind |-> "new", n |-> 0, restarts |-> 0, longs |-> 0,
                 ticks |-> 0, sets |-> 0, sinceWrite |-> -1,
                 d |-> 0, added |-> 0, wrote |-> FALSE, writeGap |-> -1,
                 wasRunning |-> FALSE, prevTick |-> 0, v |-> NaN, memBefore |-> 0,
                 fails |-> 0, failed |-> FALSE]

\* a rev/s sample reaches set()
HoursSet ==
  \E v \in HoursRevInputs :
    /\ engineHours' = Set(engineHours, v)
    /\ hoursObs' = [Obs("set") EXCEPT !.v = v, !.sets = Min(@ + 1, 2)]
    /\ UNCHANGED <<millis, prefs_, fuelVars, loadVars, rpmVars, auxVars>>

\* observer: the account of the callback that ran d after the previous one
\* and returned r
TickObs(d, r) ==
  [Obs("tick") EXCEPT
     !.n = @ + 1, !.ticks = Min(@ + 1, 2),
     !.d = d, !.added = r.eh.hours_ - engineHours.hours_,
     !.wrote = r.saved,
     !.writeGap = IF hoursObs.sinceWrite = -1 THEN -1
                  ELSE UpTo(hoursObs.sinceWrite + d),
     !.sinceWrite = IF r.saved THEN 0
                    ELSE IF @ = -1 THEN -1 ELSE UpTo(@ + d),
     !.wasRunning = engineHours.engine_running_,
     !.prevTick = engineHours.last_tick_ms_]

\* the timer callback runs d after the previous one (after the constructor,
\* for the first); putFloat stores what it is given
HoursTick ==
  \E d \in TickGapInputs :
    LET t == (millis + d) % ClockMod
        r == Tick(engineHours, t)
    IN  /\ hoursObs.n < MaxTicks
        /\ millis' = t
        /\ engineHours' = r.eh
        /\ prefs_' = IF r.saved THEN r.stored ELSE prefs_
        /\ hoursObs' = TickObs(d, r)
        /\ UNCHANGED <<fuelVars, loadVars, rpmVars, auxVars>>

\* the timer callback runs, calls save_hours() and putFloat fails (returns
\* 0 and stores nothing); the callback does not look at the result
HoursTickWriteFails ==
  \E d \in TickGapInputs :
    LET t == (millis + d) % ClockMod
        r == Tick(engineHours, t)
    IN  /\ hoursObs.n < MaxTicks
        /\ hoursObs.fails < MaxWriteFails
        /\ r.saved
        /\ millis' = t
        /\ engineHours' = r.eh
        /\ prefs_' = prefs_
        /\ hoursObs' = [TickObs(d, r) EXCEPT !.fails = @ + 1, !.failed = TRUE]
        /\ UNCHANGED <<fuelVars, loadVars, rpmVars, auxVars>>

\* the device stays up: callbacks one every TICK_INTERVAL_MS and no set()
\* call, up to the last callback before millis() wraps
HoursLongRun ==
  LET n == (ClockMod - 1 - engineHours.last_tick_ms_) \div TICK_INTERVAL_MS
      r == Ticks(engineHours, n)
  IN  /\ hoursObs.longs < MaxLongRuns
      /\ engineHours.last_tick_ms_ # 0
      /\ millis = engineHours.last_tick_ms_
      /\ millis < ClockMod \div 2
      /\ engineHours.hours_ < MaxHoursBeforeLongRun
      /\ millis' = r.eh.last_tick_ms_
      /\ engineHours' = r.eh
      /\ prefs_' = IF r.saves > 0 THEN r.stored ELSE prefs_
      /\ hoursObs' = [Obs("long") EXCEPT
           !.longs = @ + 1, !.ticks = 2,
           !.wrote = r.saves > 0,
           !.writeGap = IF hoursObs.sinceWrite = -1 THEN -1
                        ELSE UpTo(hoursObs.sinceWrite + r.first * TICK_INTERVAL_MS),
           !.sinceWrite = IF r.saves > 0
                          THEN UpTo(Elapsed(r.eh.last_tick_ms_, r.eh.last_save_ms_))
                          ELSE IF @ = -1 THEN -1 ELSE SAVE_INTERVAL_MS]
      /\ UNCHANGED <<fuelVars, loadVars, rpmVars, auxVars>>

\* power cycle: millis() starts again and the constructor runs
HoursRestart ==
  \E b \in BootInputs :
    /\ hoursObs.restarts < MaxRestarts
    /\ millis' = b
    /\ engineHours' = EngineHoursNew(prefs_)
    /\ hoursObs' = [Obs("restart") EXCEPT !.restarts = @ + 1,
                                          !.ticks = 0, !.sets = 0,
                                          !.memBefore = engineHours.hours_]
    /\ UNCHANGED <<prefs_, fuelVars, loadVars, rpmVars, auxVars>>

-----------------------------------------------------------------------------
(* Coolant sender resistance, sender_resistance.h.  Voltages are in mV,   *)
(* resistances in 0.01 ohm; the float rounding of the divisions is not    *)
(* modelled.                                                               *)

DIVIDER_SCALE == 5

\* SenderResistance(supply_voltage, r_gauge_coil): no value emitted yet
SenderResistanceNew(supply_voltage, r_gauge_coil) ==
  [supply_voltage_ |-> supply_voltage, r_gauge_coil_ |-> r_gauge_coil,
   emitted |-> FALSE, output |-> 0]

\* emit(v)
SenderEmit(o, v) == [o EXCEPT !.emitted = TRUE, !.output = v]

\* a set() that stays at NaN once a fault has been emitted
SenderSet_latches_fault(o, vadc) ==
  IF o.emitted /\ IsNaN(o.output) THEN SenderEmit(o, NaN)
  ELSE IF ~IsFinite(vadc) THEN SenderEmit(o, NaN)
  ELSE IF vadc < 10 THEN SenderEmit(o, NaN)
  ELSE LET Vtap == vadc * DIVIDER_SCALE
           denom == o.supply_voltage_ - Vtap
       IN  IF Vtap <= 0 THEN SenderEmit(o, NaN)
           ELSE IF Vtap >= o.supply_voltage_ - 50 THEN SenderEmit(o, NaN)
           ELSE IF denom <= 10 THEN SenderEmit(o, NaN)
           ELSE LET Rsender == (o.r_gauge_coil_ * Vtap) \div denom
                IN  IF Rsender < 2000 THEN SenderEmit(o, NaN)
                    ELSE IF Rsender > 2000000 THEN SenderEmit(o, NaN)
                    ELSE SenderEmit(o, Rsender)

\* SenderResistance::set(vadc)
SenderSet(o, vadc) ==
  IF ~IsFinite(vadc) THEN SenderEmit(o, NaN)          \* isnan || isinf
  ELSE IF vadc < 10 THEN SenderEmit(o, NaN)           \* floating input
  ELSE LET Vtap == vadc * DIVIDER_SCALE
           denom == o.supply_voltage_ - Vtap
       IN  IF Vtap <= 0 THEN SenderEmit(o, NaN)
           ELSE IF Vtap >= o.supply_voltage_ - 50 THEN SenderEmit(o, NaN)
           ELSE IF denom <= 10 THEN SenderEmit(o, NaN)
           ELSE LET Rsender == (o.r_gauge_coil_ * Vtap) \div denom
                IN  IF Rsender < 2000 THEN SenderEmit(o, NaN)
                    ELSE IF Rsender > 2000000 THEN SenderEmit(o, NaN)
                    ELSE SenderEmit(o, Rsender)

\* ADC voltages: invalid numbers, floating input, both sides of each limit, the
\* voltages of the tests
VadcInputs == {NaN, NInf, PInf, -100, 0, 9, 10, 40, 50, 211, 746, 1500,
               2540, 2560, 2689, 2690, 2900}
\* supply voltages (12.0 to 14.4 V) and the gauge coil resistance
SupplyInputs == {12000, 13500, 14400}
R_GAUGE_COIL == 118000

MaxSenderFaults == 2

SenderInit(supply) ==
  /\ sender = SenderResistanceNew(supply, R_GAUGE_COIL)
  /\ senderObs = [v |-> NaN, faults |-> 0]

\* set(v) called by the ADC chain
SenderSample ==
  \E v \in VadcInputs :
    LET o == SenderSet(sender, v) IN
    /\ sender' = o
    /\ senderObs' = [v |-> v,
                     faults |-> IF IsNaN(sender.output) /\ sender.emitted
                                THEN IF senderObs.faults < MaxSenderFaults
                                     THEN senderObs.faults + 1 ELSE senderObs.faults
                                ELSE 0]
    /\ UNCHANGED <<fuelVars, loadVars, rpmVars, hoursVars, coolant, stabVars, winVars>>

-----------------------------------------------------------------------------
(* Coolant simulator curve, coolant_simulator.h.  Temperatures are in      *)
(* 0.1 degC, resistances in 0.1 ohm, the interpolation fraction u in       *)
(* 1/10000; float rounding is not modelled.                                *)

TEMP_MIN_C == 120

kTempToOhms ==
  << [tC |-> 127,  ohms |-> 13520],
     [tC |-> 560,  ohms |-> 2070],
     [tC |-> 639,  ohms |-> 1310],
     [tC |-> 720,  ohms |-> 1120],
     [tC |-> 767,  ohms |-> 1040],
     [tC |-> 800,  ohms |-> 970],
     [tC |-> 825,  ohms |-> 909],
     [tC |-> 850,  ohms |-> 855],
     [tC |-> 1000, ohms |-> 450],
     [tC |-> 1210, ohms |-> 296] >>

UnitU == 10000

lerp(a, b, u) == a + ((b - a) * u) \div UnitU

\* a lookup that extends the first segment below the table instead of clamping
ohms_for_temp_extrapolates(tC) ==
  LET n == Len(kTempToOhms)
      Hit(i) == tC >= kTempToOhms[i].tC /\ tC <= kTempToOhms[i + 1].tC
      Seg(i) == lerp(kTempToOhms[i].ohms, kTempToOhms[i + 1].ohms,
                     ((tC - kTempToOhms[i].tC) * UnitU)
                        \div (kTempToOhms[i + 1].tC - kTempToOhms[i].tC))
  IN  IF IsNaN(tC) THEN kTempToOhms[n].ohms
      ELSE IF tC = NInf THEN kTempToOhms[1].ohms
      ELSE IF tC <= kTempToOhms[1].tC THEN Seg(1)
      ELSE IF tC >= kTempToOhms[n].tC THEN kTempToOhms[n].ohms
      ELSE IF \E i \in 1..(n - 1) : Hit(i)
           THEN Seg(CHOOSE i \in 1..(n - 1) : Hit(i) /\ \A j \in 1..(i - 1) : ~Hit(j))
           ELSE kTempToOhms[n].ohms

\* ohms_for_temp(tC); every comparison with NaN is false, so a NaN query falls
\* through both clamps and the loop to the fallback
ohms_for_temp(tC) ==
  LET n == Len(kTempToOhms)
      Hit(i) == tC >= kTempToOhms[i].tC /\ tC <= kTempToOhms[i + 1].tC
      Seg(i) == lerp(kTempToOhms[i].ohms, kTempToOhms[i + 1].ohms,
                     ((tC - kTempToOhms[i].tC) * UnitU)
                        \div (kTempToOhms[i + 1].tC - kTempToOhms[i].tC))
  IN  IF IsNaN(tC) THEN kTempToOhms[n].ohms
      ELSE IF tC <= kTempToOhms[1].tC THEN kTempToOhms[1].ohms
      ELSE IF tC >= kTempToOhms[n].tC THEN kTempToOhms[n].ohms
      ELSE IF \E i \in 1..(n - 1) : Hit(i)
           THEN Seg(CHOOSE i \in 1..(n - 1) : Hit(i) /\ \A j \in 1..(i - 1) : ~Hit(j))
           ELSE kTempToOhms[n].ohms

\* queries: every 0.1 degC from below the table to above it, and the non-numbers
TempLo == -100
TempHi == 1400
TempInputs == (TempLo..TempHi) \cup {NaN, NInf, PInf}

CoolantInit(t) == coolant = [tC |-> t, ohms |-> ohms_for_temp(t), n |-> 0]

\* one more call of ohms_for_temp
CoolantQuery ==
  \E t \in TempInputs :
    /\ coolant' = [tC |-> t, ohms |-> ohms_for_temp(t), n |-> 1]
    /\ UNCHANGED <<fuelVars, loadVars, rpmVars, hoursVars, senderVars, stabVars, winVars>>

-----------------------------------------------------------------------------
(* Stabilized fuel model, engine_fuel.h (STABILIZED).  Units as in the     *)
(* fuel model above; millis() in 4 ms.                                     *)

\* RPM_HOLD_MS of the stabilized fuel model (700 ms)
FUEL_RPM_HOLD_MS == 700 \div 4

\* rev/s -> RPM of the stabilized model: no range check
StabRpm(rps) == IF IsNaN(rps) THEN NaN ELSE FScale(rps, 60, 30)

\* The stabilized fuel_lph_raw lambda.  st holds the three statics, t is
\* millis(), in what the producers and the flag hold.  base_fuel and
\* idle_fuel are connected to rpm before the lambda, so their get() is the
\* lookup of the same r.
StabFuelLambda(st, r, t, in) ==
  LET valid == ~IsNaN(r) /\ r >= ENGINE_RUNNING_RPM
      s1 == IF valid THEN [st EXCEPT !.engine_running = TRUE, !.last_valid_rpm_ms = t]
                     ELSE st
  IN  IF ~(s1.engine_running /\ Elapsed(t, s1.last_valid_rpm_ms) < FUEL_RPM_HOLD_MS)
         /\ ~valid
      THEN [st  |-> [s1 EXCEPT !.engine_running = FALSE, !.last_fuel = 0],
            out |-> 0]
      ELSE
        LET stw == MsToKts(in.stw)
            sog == MsToKts(in.sog)
            docked == /\ FGe(in.use, 500)
                      /\ \/ ~IsNaN(stw) /\ FLt(stw, DOCK_SPEED_KTS)
                         \/ ~IsNaN(sog) /\ FLt(sog, DOCK_SPEED_KTS)
            f0 == IF docked THEN CurveInterpolator(idle_fuel_curve, r)
                            ELSE CurveInterpolator(baseline_fuel_curve, r)
            fuel == IF IsNaN(f0) \/ FLe(f0, 0) THEN s1.last_fuel ELSE f0
        IN  [st  |-> [s1 EXCEPT !.last_fuel = fuel],
             out |-> clamp_val(fuel, 0, FUEL_ABS_MAX)]

\* rev/s from the conditioner (1/30 rev/s): NaN, 0, 400 RPM, 498, 500, 2800
StabRpsInputs == {NaN, 0, 200, 249, 250, 1400}
\* time between two samples (4 ms): 100 ms, 600 ms, 700 ms
StabGapInputs == {25, 150, 175}
\* STW and SOG (0.001 m/s): absent or NaN, 0.1 kn, 6.4 kn
StabStwInputs == {NaN, 51, 3293}
StabSogInputs == {NaN, 51}
\* millis() when the first sample arrives: after boot, and shortly before the
\* counter wraps
StabBootInputs == {74, ClockMod - 200}

MaxStabSamples == 4

StabInit(t0) ==
  /\ stabNow = t0
  /\ stabIn = [stw |-> NaN, sog |-> NaN, use |-> 1000]
  /\ stab = [last_fuel |-> 0, last_valid_rpm_ms |-> 0, engine_running |-> FALSE]
  /\ stabEval = [done |-> FALSE, r |-> NaN, out |-> 0, prev |-> 0,
                 seen |-> FALSE, since |-> 0, n |-> 0]

\* the STW producer, the SOG producer or the flag takes a new value
StabStwUpdate ==
  \E v \in StabStwInputs :
    /\ stabIn' = [stabIn EXCEPT !.stw = v]
    /\ UNCHANGED <<stabNow, stab, stabEval,
                   fuelVars, loadVars, rpmVars, hoursVars, senderVars, coolant, winVars>>

StabSogUpdate ==
  \E v \in StabSogInputs :
    /\ stabIn' = [stabIn EXCEPT !.sog = v]
    /\ UNCHANGED <<stabNow, stab, stabEval,
                   fuelVars, loadVars, rpmVars, hoursVars, senderVars, coolant, winVars>>

StabUseUpdate ==
  \E v \in UseInputs :
    /\ stabIn' = [stabIn EXCEPT !.use = v]
    /\ UNCHANGED <<stabNow, stab, stabEval,
                   fuelVars, loadVars, rpmVars, hoursVars, senderVars, coolant, winVars>>

\* rpm_rev_s emits a sample d after the previous one: conversion, the two
\* curves, the lambda
StabSample ==
  \E d \in StabGapInputs, rps \in StabRpsInputs :
    LET t == (stabNow + d) % ClockMod
        r == StabRpm(rps)
        x == StabFuelLambda(stab, r, t, stabIn)
        valid == ~IsNaN(r) /\ r >= 500
    IN  /\ stabEval.n < MaxStabSamples
        /\ stabNow' = t
        /\ stab' = x.st
        /\ stabEval' = [done |-> TRUE, r |-> r, out |-> x.out, prev |-> stabEval.out,
                        seen |-> stabEval.seen \/ valid,
                        since |-> IF valid THEN 0
                                  ELSE Min(stabEval.since + d, FUEL_RPM_HOLD_MS),
                        n |-> stabEval.n + 1]
        /\ UNCHANGED <<stabIn, fuelVars, loadVars, rpmVars, hoursVars, senderVars, coolant, winVars>>

-----------------------------------------------------------------------------
(* Sliding-window conditioner, rpm_sensor.h (setup_rpm_sensor).  rev/s in  *)
(* 1/30 rev/s, millis() in 4 ms.                                           *)

RPM_AVG_WINDOW_MS == 1000 \div 4
RPM_STALL_TIMEOUT_MS == 4000 \div 4

\* rps > 0.1f, in 1/30 rev/s
WinValid(rps) == ~IsNaN(rps) /\ rps > 3

RECURSIVE PopOld(_, _)
\* while (!rpm_buf.empty() && now - front.t_ms > RPM_AVG_WINDOW_MS) pop_front()
PopOld(buf, t) ==
  IF buf # <<>> /\ Elapsed(t, Head(buf).t_ms) > RPM_AVG_WINDOW_MS
  THEN PopOld(Tail(buf), t)
  ELSE buf

RECURSIVE SumRps(_)
SumRps(buf) == IF buf = <<>> THEN 0 ELSE Head(buf).rps + SumRps(Tail(buf))

\* the smoothing lambda: buf is rpm_buf, last is last_sample_ms, t is millis()
Smooth(buf, last, rps, t) ==
  LET b1 == IF WinValid(rps) THEN Append(buf, [rps |-> rps, t_ms |-> t]) ELSE buf
      l1 == IF WinValid(rps) THEN t ELSE last
      b2 == PopOld(b1, t)
      b3 == IF b2 # <<>> /\ l1 # 0 /\ Elapsed(t, l1) > RPM_STALL_TIMEOUT_MS
            THEN <<>> ELSE b2
  IN  [buf |-> b3, last |-> l1,
       out |-> IF b3 = <<>> THEN NaN ELSE SumRps(b3) \div Len(b3)]

\* raw rev/s from the Frequency transform (1/30 rev/s): NaN, 0, 0.1 rev/s,
\* 500 RPM, 2800 RPM
WinRpsInputs == {NaN, 0, 3, 250, 1400}
\* time between two samples (4 ms): 0.5 s, 1 s, 1.5 s
WinGapInputs == {125, 250, 375}

MaxWinSamples == 5

WinInit ==
  /\ winNow = 74
  /\ rpm_buf = <<>>
  /\ last_sample_ms = 0
  /\ winEval = [done |-> FALSE, in |-> NaN, out |-> NaN,
                seen |-> FALSE, since |-> 0, n |-> 0]

\* g_frequency emits a sample d after the previous one
WinSample ==
  \E d \in WinGapInputs, rps \in WinRpsInputs :
    LET t == (winNow + d) % ClockMod
        x == Smooth(rpm_buf, last_sample_ms, rps, t)
    IN  /\ winEval.n < MaxWinSamples
        /\ winNow' = t
        /\ rpm_buf' = x.buf
        /\ last_sample_ms' = x.last
        /\ winEval' = [done |-> TRUE, in |-> rps, out |-> x.out,
                       seen |-> winEval.seen \/ WinValid(rps),
                       since |-> IF WinValid(rps) THEN 0
                                 ELSE Min(winEval.since + d, RPM_STALL_TIMEOUT_MS + 1),
                       n |-> winEval.n + 1]
        /\ UNCHANGED <<fuelVars, loadVars, rpmVars, hoursVars, senderVars, coolant, stabVars>>

AuxInit == SenderInit(13500) /\ CoolantInit(TEMP_MIN_C) /\ StabInit(74) /\ WinInit

-----------------------------------------------------------------------------
(* Specifications: one per component *)

PipelineInit == FuelInit(AllProducers) /\ LoadInit /\ RpmInit /\ HoursInit

InitFuel == (\E c \in CfgInputs : FuelInit(c)) /\ LoadInit /\ RpmInit /\ HoursInit /\ AuxInit
InitLoad == FuelInit(AllProducers) /\ LoadInit /\ RpmInit /\ HoursInit /\ AuxInit
InitRpm  == FuelInit(AllProducers) /\ LoadInit /\ RpmInit /\ HoursInit /\ AuxInit
InitHours == FuelInit(AllProducers) /\ LoadInit /\ RpmInit /\ HoursInit /\ AuxInit

NextFuel ==
  \/ StwUpdate
  \/ SogUpdate
  \/ AwsUpdate
  \/ AwaUpdate
  \/ UseStwUpdate
  \/ FuelRpmSample

NextLoad ==
  \/ LoadRpmSample
  \/ LoadFuelSample
  \/ LoadPipelineSample

NextRpm ==
  \/ RpmSample
  \/ LongSilence

NextHours ==
  \/ HoursSet
  \/ HoursTick
  \/ HoursLongRun
  \/ HoursRestart

\* the accumulator with a store whose writes can fail
NextHoursFault ==
  \/ HoursSet
  \/ HoursTick
  \/ HoursTickWriteFails

InitSender == PipelineInit /\ (\E s \in SupplyInputs : SenderInit(s))
              /\ CoolantInit(TEMP_MIN_C) /\ StabInit(74) /\ WinInit

InitCoolant == PipelineInit /\ SenderInit(13500) /\ (\E t \in TempInputs : CoolantInit(t))
               /\ StabInit(74) /\ WinInit

InitStab == PipelineInit /\ SenderInit(13500) /\ CoolantInit(TEMP_MIN_C)
            /\ (\E t0 \in StabBootInputs : StabInit(t0)) /\ WinInit

InitWin == PipelineInit /\ AuxInit

NextWin ==
  \/ WinSample

SpecWin == InitWin /\ [][NextWin]_vars

NextStab ==
  \/ StabStwUpdate
  \/ StabSogUpdate
  \/ StabUseUpdate
  \/ StabSample

SpecStab == InitStab /\ [][NextStab]_vars

NextCoolant ==
  \/ CoolantQuery

SpecCoolant == InitCoolant /\ [][NextCoolant]_vars

NextSender ==
  \/ SenderSample

SpecSender == InitSender /\ [][NextSender]_vars

SpecFuel == InitFuel /\ [][NextFuel]_vars
SpecLoad == InitLoad /\ [][NextLoad]_vars
SpecRpm  == InitRpm /\ [][NextRpm]_vars
SpecHours == InitHours /\ [][NextHours]_vars
SpecHoursFault == InitHours /\ [][NextHoursFault]_vars

-----------------------------------------------------------------------------
(* Properties of the fuel model (SpecFuel) *)

\* what the fuel lambda reads for STW and SOG in the current state (knots)
StwKtsNow == IF cfg.stw THEN MsToKts(stw_ms) ELSE NaN
SogKtsNow == IF cfg.sog THEN MsToKts(sog_ms) ELSE NaN

\* no apparent wind reaches the model
Calm == ~cfg.aws \/ ~cfg.awa \/ IsNaN(aws_ms) \/ IsNaN(awa_rad)

\* the last evaluation read the inputs of the current state and the engine ran
FreshRunning ==
  /\ fuelEval.done /\ fuelEval.fresh
  /\ ~IsNaN(fuelEval.r) /\ fuelEval.r >= 500

Trusted == use_stw_cfg >= 500

\* the fuel model's value for the current inputs with STW replaced by v (m/s)
FuelWithStw(v) ==
  FuelLphRaw(fuelEval.r, cfg, v, sog_ms, aws_ms, awa_rad, use_stw_cfg).fuel

\* C1: whatever RPM, STW, SOG, AWS, AWA (finite, NaN or absent) and use-STW
\* flag the fuel lambda was evaluated with, the value it emitted is not NaN
\* and lies in [0, 14] L/h.
C1_FuelInRange ==
  fuelEval.done =>
    /\ IsFinite(fuelEval.fuel)
    /\ fuelEval.fuel >= 0
    /\ fuelEval.fuel <= 14000

\* C1 witness: the engine runs with every speed and wind input missing and a
\* positive fuel value is emitted.
C1_Witness ==
  /\ FreshRunning
  /\ IsNaN(StwKtsNow) /\ IsNaN(SogKtsNow)
  /\ cfg.aws /\ cfg.awa /\ IsNaN(aws_ms) /\ IsNaN(awa_rad)
  /\ fuelEval.fuel > 0

\* C6: stopped mode yields zero fuel: if the RPM passed to the fuel lambda is
\* NaN or below 500, the emitted fuel is exactly 0 whatever the other inputs.
C6_StoppedZeroFuel ==
  (fuelEval.done /\ (IsNaN(fuelEval.r) \/ fuelEval.r < 500)) => fuelEval.fuel = 0

\* C6 witness: 498 RPM with a valid trusted STW of 6.4 kn and a 15 kn wind.
C6_Witness ==
  /\ fuelEval.done /\ fuelEval.fresh /\ fuelEval.r = 498
  /\ Trusted /\ StwKtsNow = 6400 /\ cfg.aws /\ cfg.awa /\ aws_ms = 7717
  /\ fuelEval.fuel = 0

\* C7: while the engine runs, a trusted valid STW decides docked/underway
\* alone (at or above 0.15 kn: Underway, whatever SOG is); SOG decides only
\* when STW is untrusted or invalid; with no valid speed the mode is Underway.
C7_StwAloneDecides ==
  FreshRunning =>
    IF Trusted /\ ~IsNaN(StwKtsNow)
    THEN fuelEval.mode = (IF StwKtsNow < 150 THEN "Docked" ELSE "Underway")
    ELSE IF ~IsNaN(SogKtsNow)
    THEN fuelEval.mode = (IF SogKtsNow < 150 THEN "Docked" ELSE "Underway")
    ELSE fuelEval.mode = "Underway"

\* the load lambda's value for fuel lph once RPM r and its max power are latched
LoadAt(r, lph) ==
  LoadLambda(ActualPowerKW(lph),
             [rpm |-> r, max_kW |-> CurveInterpolator(max_power_curve, r)])

\* C8: underway baseline reference case: RPM 2800, trusted STW 6.4 kn, no
\* wind: fuel is about 2.7 L/h (within 0.1) and the load computed from that
\* fuel is between 0.70 and 0.71.
C8_BaselineCase ==
  (/\ FreshRunning /\ fuelEval.r = 2800
   /\ Trusted /\ StwKtsNow = 6400 /\ Calm
   /\ fuelEval.mode = "Underway") =>
    /\ fuelEval.fuel >= 2600 /\ fuelEval.fuel <= 2800
    /\ LoadAt(2800, fuelEval.fuel) >= 700
    /\ LoadAt(2800, fuelEval.fuel) <= 710

\* C9: headwind increases fuel: RPM 2800, trusted STW 5.2 kn, apparent wind
\* 15 kn from dead ahead: the fuel is strictly greater than the fuel for the
\* same RPM and STW with no wind.
C9_HeadwindIncreasesFuel ==
  (/\ FreshRunning /\ fuelEval.r = 2800
   /\ Trusted /\ StwKtsNow = 5199
   /\ cfg.aws /\ cfg.awa /\ aws_ms = 7717 /\ awa_rad = 0
   /\ fuelEval.mode = "Underway") =>
    fuelEval.fuel >
      FuelLphRaw(fuelEval.r, cfg, stw_ms, sog_ms, NaN, NaN, use_stw_cfg).fuel

C11_FuelBelowRated ==
  (fuelEval.done /\ ~IsNaN(fuelEval.r) /\ fuelEval.r >= 500) =>
    fuelEval.fuel <= CurveInterpolator(rated_fuel_curve, fuelEval.r)

\* C11 witness: docked at 500 RPM, where the ceiling is lowest (0.9 L/h):
\* the idle value 0.6 L/h is emitted.
C11_Witness ==
  /\ FreshRunning /\ fuelEval.mode = "Docked" /\ fuelEval.r = 500
  /\ fuelEval.fuel = 600
  /\ CurveInterpolator(rated_fuel_curve, 500) = 900

\* C21: mode and fuel are re-evaluated whenever a new STW or SOG sample
\* arrives: on the step that delivers a speed sample while the engine runs,
\* the emitted mode and fuel become what the inputs after the step imply for
\* the last RPM, without waiting for another RPM sample.
C21_SpeedSampleReevaluates ==
  [][((stw_ms' # stw_ms \/ sog_ms' # sog_ms)
      /\ fuelEval.done /\ ~IsNaN(fuelEval.r) /\ fuelEval.r >= 500) =>
       /\ fuelEval'.mode =
            FuelLphRaw(fuelEval.r, cfg, stw_ms', sog_ms', aws_ms', awa_rad', use_stw_cfg').mode
       /\ fuelEval'.fuel =
            FuelLphRaw(fuelEval.r, cfg, stw_ms', sog_ms', aws_ms', awa_rad', use_stw_cfg').fuel]_vars

\* the producers that deliver NaN now and delivered a valid value before
Gaps ==
  {x \in {"stw", "sog", "aws", "awa"} :
     /\ cfg[x] /\ ~IsNaN(held[x])
     /\ IsNaN(CASE x = "stw" -> stw_ms [] x = "sog" -> sog_ms
                [] x = "aws" -> aws_ms [] OTHER -> awa_rad)}

\* C22: each of STW, SOG, AWS and AWA is held across a brief gap: when one
\* sensor delivers NaN for an evaluation after a valid value, the fuel
\* estimate is the one computed with that sensor's last valid value and the
\* mode is the one that value implies.
C22_SensorHeldAcrossGap ==
  (FreshRunning /\ Cardinality(Gaps) = 1) =>
    /\ fuelEval.mode =
         FuelLphRaw(fuelEval.r, cfg, held.stw, held.sog, held.aws, held.awa, use_stw_cfg).mode
    /\ fuelEval.fuel =
         FuelLphRaw(fuelEval.r, cfg, held.stw, held.sog, held.aws, held.awa, use_stw_cfg).fuel

\* the STW-deficit factor of the current inputs at the RPM last evaluated
StwFactorNow ==
  StwFactor(fuelEval.r, Trusted, StwKtsNow,
            CurveInterpolator(baseline_stw_curve, fuelEval.r))

\* C27: a tailwind never cancels an STW loss: when STW is trusted, valid and so
\* far below baseline that the STW-deficit factor exceeds 1.0, the underway
\* fuel estimate is not below the baseline-fuel curve value at that RPM,
\* whatever the apparent wind speed and angle.
C27_TailwindNeverCancels ==
  (/\ FreshRunning /\ fuelEval.mode = "Underway"
   /\ Trusted /\ ~IsNaN(StwKtsNow)
   /\ StwFactorNow > 1000) =>
    fuelEval.fuel >= CurveInterpolator(baseline_fuel_curve, fuelEval.r)

\* C28: with the use-STW flag below 0.5 the fuel estimate does not depend on
\* STW: for the RPM, SOG and wind the lambda was evaluated with, every STW
\* value gives the mode and the fuel it emitted.  The lambda keeps nothing
\* between evaluations, so two runs that differ only in STW agree step by step.
C28_StwIgnoredWhenDisabled ==
  (fuelEval.done /\ fuelEval.fresh /\ use_stw_cfg < 500) =>
    \A v \in StwInputs :
      /\ FuelLphRaw(fuelEval.r, cfg, v, sog_ms, aws_ms, awa_rad, use_stw_cfg).mode
           = fuelEval.mode
      /\ FuelLphRaw(fuelEval.r, cfg, v, sog_ms, aws_ms, awa_rad, use_stw_cfg).fuel
           = fuelEval.fuel

\* STW disabled, an STW reading of 0.1 kn that would mean docked, and the
\* engine at 2800 RPM: the estimate is the underway baseline
C28_Witness ==
  /\ FreshRunning /\ fuelEval.r = 2800
  /\ use_stw_cfg < 500 /\ cfg.stw /\ stw_ms = 51
  /\ Calm /\ IsNaN(SogKtsNow)
  /\ fuelEval.mode = "Underway" /\ fuelEval.fuel = 3600

-----------------------------------------------------------------------------
(* Properties of the load model (SpecLoad) *)

C12_StoppedZeroLoad ==
  (loadEval.done /\ ~IsNaN(loadEval.rps) /\ loadEval.rps < 250) =>
    loadEval.load = 0

\* C26: when one RPM sample propagates through the pipeline, the fuel stage
\* connected before the load stage, the load emitted for that sample is the
\* load lambda's value for the RPM of that sample and the max power at that
\* RPM, not for the values latched from the sample before.
C26_LoadFromSameSample ==
  (loadEval.done /\ loadEval.piped /\ IsFinite(LoadRpm(loadEval.rps))) =>
    loadEval.load = LoadAt(LoadRpm(loadEval.rps), loadEval.lph)

-----------------------------------------------------------------------------
(* Properties of the RPM stabilizer (SpecRpm) *)

LastInvalid == rpmEval.done /\ ~(~IsNaN(rpmEval.in) /\ rpmEval.in >= 500)

\* C3: hold-then-decay: after a valid sample was latched, an invalid sample
\* processed less than 2000 ms after it yields the latched value, and an
\* invalid sample processed 2000 ms or more after it yields exactly 0.
C3_HoldThenDecay ==
  (LastInvalid /\ hist.seen) =>
    /\ hist.since < 500  => rpmEval.out = hist.latched
    /\ hist.since >= 500 => rpmEval.out = 0

\* C3 witness: a valid sample was latched and the invalid sample that arrives
\* once the window is over yields 0.
C3_Witness ==
  /\ LastInvalid /\ hist.seen /\ hist.latched >= 500
  /\ hist.since >= 500 /\ hist.silences = 0
  /\ rpmEval.out = 0

\* C4: whatever raw frequency samples arrive (positive, zero, negative, NaN),
\* the canonical rev/s and the rad/s derived from it are never NaN.
C4_RevNeverNaN ==
  rpmEval.done => ~IsNaN(rpmEval.rev_s) /\ ~IsNaN(rpmEval.rad_s)

\* C4 witness: a NaN sample inside the hold window; the held rev/s is emitted.
C4_Witness ==
  /\ rpmEval.done /\ IsNaN(rpmEval.in)
  /\ hist.seen /\ hist.since < 500
  /\ rpmEval.rev_s > 0 /\ rpmEval.rad_s > 0

\* C5: a permanently lost signal converges to 0 and stays there: every
\* invalid sample processed once the hold window is over (or when no valid
\* sample ever arrived) yields 0, also after the millisecond clock wrapped.
C5_LostSignalStaysZero ==
  (LastInvalid /\ (~hist.seen \/ hist.since >= 500)) =>
    /\ rpmEval.out = 0
    /\ rpmEval.rev_s = 0
    /\ rpmEval.rad_s = 0

\* C5 witness: after a valid sample and the decay the clock wrapped, so that
\* now - last_valid_ms is again below the hold window, and the invalid sample
\* processed then still yields 0.
C5_Witness ==
  /\ LastInvalid /\ hist.seen /\ hist.since >= 500
  /\ hist.silences > 0
  /\ Elapsed(now, last_valid_ms) < RPM_HOLD_MS
  /\ rpmEval.out = 0

-----------------------------------------------------------------------------
(* Properties of the engine hours accumulator (SpecHours) *)

\* the last operation was a timer callback, and not the first one since
\* construction
LaterTick == hoursObs.kind = "tick" /\ hoursObs.ticks >= 2

\* C13: on every timer tick after the first, hours increases by exactly the
\* time elapsed since the previous tick when the latched rev/s is at or above
\* 500/60 (250 in 1/30 rev/s), and is left unchanged when the latched rev/s is
\* below it or no sample was ever latched; the first tick after construction
\* adds nothing whatever the RPM.
C13_TickAccumulates ==
  hoursObs.kind = "tick" =>
    IF hoursObs.ticks = 1 THEN hoursObs.added = 0
    ELSE IF ~IsNaN(engineHours.last_rev_s_) /\ engineHours.last_rev_s_ >= 250
    THEN hoursObs.added = hoursObs.d
    ELSE hoursObs.added = 0

C15_NaNIgnored ==
  [][(hoursObs'.kind = "set" /\ IsNaN(hoursObs'.v)) =>
       (engineHours' = engineHours /\ prefs_' = prefs_)]_vars

\* C15 witness: a NaN sample arrived while 2800 RPM was latched, the engine
\* was running and hours had accumulated.
C15_Witness ==
  /\ hoursObs.kind = "set" /\ IsNaN(hoursObs.v)
  /\ engineHours.last_rev_s_ = 1400 /\ engineHours.engine_running_
  /\ engineHours.hours_ > 0

\* C16: writes of hours to storage are rate-limited: a write made by the tick
\* handler comes at least 10,000 ms (2500 units) after the previous write of
\* the tick handler, and the first tick makes no write.
C16_WritesRateLimited ==
  hoursObs.kind \in {"tick", "long"} =>
    /\ (hoursObs.kind = "tick" /\ hoursObs.ticks = 1) => ~hoursObs.wrote
    /\ (hoursObs.wrote /\ hoursObs.writeGap # -1) => hoursObs.writeGap >= 2500

\* C16 witness: a tick wrote, 10 s after an earlier write of the tick handler.
C16_Witness ==
  /\ hoursObs.kind = "tick" /\ hoursObs.wrote
  /\ hoursObs.writeGap >= 2500 /\ hoursObs.longs = 0

\* C17: when the running flag goes from true to false on a tick, hours are
\* written to storage on that tick, even if less than the save interval has
\* passed since the previous write.
C17_SaveOnFallingEdge ==
  (hoursObs.kind = "tick" /\ hoursObs.wasRunning /\ ~engineHours.engine_running_) =>
    hoursObs.wrote

\* C18: persistence round trip: after a restart the hours restored at
\* construction equal the last value written to storage, and are below the
\* in-memory value held just before the restart by no more than the hours of
\* one save interval (10 s, 2500 units).
C18_RoundTrip ==
  hoursObs.kind = "restart" =>
    /\ engineHours.hours_ = prefs_
    /\ hoursObs.memBefore >= engineHours.hours_
    /\ hoursObs.memBefore - engineHours.hours_ <= 2500

\* C19: across any sequence of timer ticks and set calls the accumulated
\* hours never decrease, also when the millisecond clock wraps between two
\* ticks.
C19_HoursNeverDecrease ==
  [][hoursObs'.kind # "restart" => engineHours'.hours_ >= engineHours.hours_]_vars

\* C19 witness: the clock wrapped between the previous tick and this one, and
\* this tick added its elapsed time.
C19_Witness ==
  /\ LaterTick /\ hoursObs.prevTick > millis /\ millis > 0
  /\ hoursObs.d > 0 /\ hoursObs.added = hoursObs.d

\* C20: accumulation does not depend on how often the rate updates: after one
\* set call with a rate at or above 500/60 rev/s and no further set call,
\* every later tick (after the first) adds its elapsed time to hours.
C20_TimerDriven ==
  (LaterTick /\ hoursObs.sets = 1 /\ engineHours.last_rev_s_ >= 250) =>
    (hoursObs.d > 0 /\ hoursObs.added = hoursObs.d)

\* C23: a failed write of hours is never fatal: once a write has failed,
\* later ticks keep accumulating hours in memory, a write is attempted again
\* on the tick that comes a save interval (10 s, 2500 units) after the failed
\* attempt, and a write that succeeds stores the then-current hours.
C23_FailedWriteNotFatal ==
  (hoursObs.kind = "tick" /\ hoursObs.fails > 0) =>
    /\ (LaterTick /\ engineHours.last_rev_s_ >= 250) => hoursObs.added = hoursObs.d
    /\ hoursObs.writeGap >= 2500 => hoursObs.wrote
    /\ (hoursObs.wrote /\ ~hoursObs.failed) => prefs_ = engineHours.hours_

\* C23 witness: a write failed, the engine kept running, and the write made a
\* save interval later stored the hours accumulated until then.
C23_Witness ==
  /\ hoursObs.kind = "tick" /\ hoursObs.fails > 0
  /\ hoursObs.wrote /\ ~hoursObs.failed /\ hoursObs.writeGap >= 2500
  /\ hoursObs.added > 0
  /\ prefs_ = engineHours.hours_ /\ prefs_ >= 2500

-----------------------------------------------------------------------------
(* Properties of the coolant sender *)

\* the last input is one of the faults the transform rejects
SenderFaulty ==
  LET v == senderObs.v
      Vs == sender.supply_voltage_
  IN  \/ ~IsFinite(v)
      \/ v < 10
      \/ 5 * v >= Vs - 50
      \/ (118000 * 5 * v) \div (Vs - 5 * v) < 2000
      \/ (118000 * 5 * v) \div (Vs - 5 * v) > 2000000

-----------------------------------------------------------------------------
(* Properties of the coolant simulator curve *)

\* C25: a query at or below the first breakpoint returns exactly the first
\* breakpoint's ohms, a query at or above the last returns exactly the last
\* breakpoint's ohms, and a query between two neighbouring breakpoints returns a
\* value between their ohms.
C25_CurveClamps ==
  LET t == coolant.tC
      n == Len(kTempToOhms)
  IN  ~IsNaN(t) =>
        /\ t <= kTempToOhms[1].tC => coolant.ohms = kTempToOhms[1].ohms
        /\ t >= kTempToOhms[n].tC => coolant.ohms = kTempToOhms[n].ohms
        /\ \A i \in 1..(n - 1) :
             (t >= kTempToOhms[i].tC /\ t <= kTempToOhms[i + 1].tC) =>
                /\ coolant.ohms <= kTempToOhms[i].ohms
                /\ coolant.ohms >= kTempToOhms[i + 1].ohms

\* a query below the table was answered with the first breakpoint's resistance
C25_Witness ==
  /\ coolant.n = 1 /\ coolant.tC = 50 /\ coolant.ohms = 13520

-----------------------------------------------------------------------------
(* Properties of the stabilized fuel model (SpecStab) *)

\* the last sample was invalid: NaN or below 500 RPM
StabInvalid == stabEval.done /\ (IsNaN(stabEval.r) \/ stabEval.r < 500)

\* C29: short RPM glitches are ignored: an invalid RPM sample processed less
\* than 700 ms after the last valid one leaves the fuel output equal to the
\* last emitted fuel value, and an invalid sample processed 700 ms or more
\* after it yields 0 and resets the held fuel to 0.
C29_GlitchIgnored ==
  (StabInvalid /\ stabEval.seen) =>
    /\ stabEval.since < 175 => stabEval.out = stabEval.prev
    /\ stabEval.since >= 175 => (stabEval.out = 0 /\ stab.last_fuel = 0)

-----------------------------------------------------------------------------
(* Properties of the sliding-window conditioner (SpecWin) *)

\* C30: the smoothed rev/s is free of transient NaN: once a valid sample has
\* been seen, every sample processed less than the 4000 ms stall timeout after
\* the last valid one is answered with a finite positive average; the output
\* is NaN only once that timeout has elapsed.
C30_NoTransientNaN ==
  (winEval.done /\ winEval.seen /\ winEval.since < 1000) =>
    (IsFinite(winEval.out) /\ winEval.out > 0)

====
